---- MODULE Spec2Model ----
(***************************************************************************)
(* Euler-angle / quaternion converter (src/src/rotation_converter.py).     *)
(*                                                                         *)
(* The program computes on Python/numpy floats.  A float is modelled as a  *)
(* signed decimal fixed-point number with twelve fractional digits, kept   *)
(* as four limbs of four decimal digits each,                              *)
(*     <<l1, l2, l3, l4>>  =  l4 + l3/10^4 + l2/10^8 + l1/10^12,           *)
(* with l1, l2, l3 in 0 .. 9999 and l4 any (small) integer, or as one of   *)
(* the special values NaN, inf and -inf.  Every arithmetic operator rounds *)
(* its result to the twelve digits, as a float operation rounds to its 53  *)
(* bits; sin, cos, sqrt, arctan2 and arcsin are computed by power series   *)
(* and Newton's iteration on these numbers, so that a conversion followed  *)
(* by its inverse is a computation that can come out wrong.                *)
(*                                                                         *)
(* The smallest positive number is 10^-12, and the square of a number      *)
(* below 5 * 10^-7 rounds to zero, as the square of a float below about    *)
(* 1.5e-162 rounds to 0.0: the model has the float's underflow at another  *)
(* threshold.  It has no overflow to inf, its inputs being small, and no   *)
(* negative zero.                                                          *)
(***************************************************************************)
EXTENDS Integers, Sequences, FiniteSets

(***************************************************************************)
(* Bounds of the model.                                                    *)
(***************************************************************************)
\* quaternion inputs have integer components in -MaxComp .. MaxComp
MaxComp == 1
\* the caller scales a quaternion by k in -MaxScale .. MaxScale, k # 0
MaxScale == 2
\* most terms summed by a power series before it is cut off
MaxTerms == 60
\* most steps of Newton's iteration for a square root
MaxNewton == 40

(***************************************************************************)
(* Fixed-point numbers.                                                    *)
(***************************************************************************)
Base == 10000

NaN == <<>>

IsNaN(a) == Len(a) = 0

Zero == <<0, 0, 0, 0>>

One == <<0, 0, 0, 1>>

Two == <<0, 0, 0, 2>>

Half == <<0, 0, 5000, 0>>

\* an integer as a number
FromInt(n) == <<0, 0, 0, n>>

\* n millionths as a number: 500000 is 0.5
Micro(n) ==
    LET r == n % 1000000
    IN  <<0, (r % 100) * 100, r \div 100, n \div 1000000>>

\* the number whose limbs, before the carries are propagated, are c1 .. c4
Carry4(c1, c2, c3, c4) ==
    LET t2 == c2 + (c1 \div Base)
        t3 == c3 + (t2 \div Base)
    IN  <<c1 % Base, t2 % Base, t3 % Base, c4 + (t3 \div Base)>>

Add(a, b) == Carry4(a[1] + b[1], a[2] + b[2], a[3] + b[3], a[4] + b[4])

Sub(a, b) == Carry4(a[1] - b[1], a[2] - b[2], a[3] - b[3], a[4] - b[4])

Neg(a) == Carry4(-a[1], -a[2], -a[3], -a[4])

\* -1, 0 or 1
Sgn(a) == IF a[4] < 0 THEN -1 ELSE IF a = Zero THEN 0 ELSE 1

Abs(a) == IF a[4] < 0 THEN Neg(a) ELSE a

Less(a, b) ==
    \/ a[4] < b[4]
    \/ a[4] = b[4] /\ a[3] < b[3]
    \/ a[4] = b[4] /\ a[3] = b[3] /\ a[2] < b[2]
    \/ a[4] = b[4] /\ a[3] = b[3] /\ a[2] = b[2] /\ a[1] < b[1]

Leq(a, b) == ~Less(b, a)

\* a * b, rounded to the nearest twelfth digit
Mul(a, b) ==
    LET c1 == a[1] * b[1]
        c2 == a[1] * b[2] + a[2] * b[1]
        c3 == a[1] * b[3] + a[2] * b[2] + a[3] * b[1]
        c4 == a[1] * b[4] + a[2] * b[3] + a[3] * b[2] + a[4] * b[1]
        c5 == a[2] * b[4] + a[3] * b[3] + a[4] * b[2]
        c6 == a[3] * b[4] + a[4] * b[3]
        c7 == a[4] * b[4]
        t2 == c2 + (c1 \div Base)
        t3 == c3 + (t2 \div Base) + (Base \div 2)
    IN  Carry4(c4 + (t3 \div Base), c5, c6, c7)

\* a * n for a small integer n
MulSmall(a, n) == Carry4(a[1] * n, a[2] * n, a[3] * n, a[4] * n)

\* a / d for a small integer d > 0, rounded down
DivSmall(a, d) ==
    LET r4 == a[4] % d
        n3 == r4 * Base + a[3]
        n2 == (n3 % d) * Base + a[2]
        n1 == (n2 % d) * Base + a[1]
    IN  <<n1 \div d, n2 \div d, n3 \div d, a[4] \div d>>

\* a * 10^4
ShiftUp(a) == <<0, a[1], a[2], a[3] + a[4] * Base>>

RECURSIVE NewtonRecip(_, _, _)
\* i more steps r <- r * (2 - m * r) towards 1 / m
NewtonRecip(m, r, i) ==
    IF i = 0 THEN r ELSE NewtonRecip(m, Mul(r, Sub(Two, Mul(m, r))), i - 1)

\* 1 / m for m >= 1: a two-digit estimate, doubled in digits by each step
Recip(m) ==
    LET t == m[4] * Base + m[3]
        x == 1000000000 \div (t \div 100)
    IN  NewtonRecip(m, Carry4(0, (x % 1000) * 10, x \div 1000, 0), 4)

RECURSIVE DivPos(_, _)
\* a / m for m > 0
DivPos(a, m) ==
    IF m[4] >= 1 THEN Mul(a, Recip(m)) ELSE DivPos(ShiftUp(a), ShiftUp(m))

\* a / b for b # 0
Div(a, b) == IF b[4] < 0 THEN Neg(DivPos(a, Neg(b))) ELSE DivPos(a, b)

\* one step of Newton's iteration for the square root of n
SqrtStep(n, s) == DivSmall(Add(s, Div(n, s)), 2)

RECURSIVE SqrtFrom(_, _, _, _)
\* the iterates s, next, ... fall towards the root: stop when they stop falling
SqrtFrom(n, s, next, i) ==
    IF i = 0 \/ Leq(s, next) THEN s ELSE SqrtFrom(n, next, SqrtStep(n, next), i - 1)

\* Newton's iteration from s, which is at least the root
SqrtNewton(n, s) == SqrtFrom(n, s, SqrtStep(n, s), MaxNewton)

\* the square root of n >= 0
Sqrt(n) == IF n = Zero THEN Zero ELSE SqrtNewton(n, DivSmall(Add(n, One), 2))

RECURSIVE SinCosSeries(_, _, _, _)
\* sum + the terms after term of the series x^k / k!, signs alternating
SinCosSeries(x2, term, sum, k) ==
    IF term = Zero \/ k > MaxTerms
    THEN sum
    ELSE SinCosSeries(x2, Neg(DivSmall(Mul(term, x2), (k + 1) * (k + 2))),
                      Add(sum, term), k + 2)

Sin(x) == SinCosSeries(Mul(x, x), x, Zero, 1)

Cos(x) == SinCosSeries(Mul(x, x), One, Zero, 0)

np_pi == <<3589, 9265, 1415, 3>>

HalfPi == DivSmall(np_pi, 2)

RECURSIVE AtanSeries(_, _, _, _)
\* sum + term + the terms after it of Euler's series for arctan:
\* term(n+1) = term(n) * z * (2n+2) / (2n+3), z = u^2 / (1 + u^2)
AtanSeries(z, term, sum, n) ==
    IF term = Zero \/ n > MaxTerms
    THEN sum
    ELSE AtanSeries(z, Mul(term, DivSmall(MulSmall(z, 2 * n + 2), 2 * n + 3)),
                    Add(sum, term), n + 1)

\* arctan(u) for 0 <= u <= 1/2, d = 1 + u^2: the series starts at u / d
AtanSmallBy(u, d) == AtanSeries(Div(Mul(u, u), d), Div(u, d), Zero, 0)

AtanSmall(u) == AtanSmallBy(u, Add(One, Mul(u, u)))

\* arctan(t) for 0 <= t <= 1: beyond 1/2, pi/4 - arctan((1 - t) / (1 + t))
Atan01(t) ==
    IF Less(Half, t)
    THEN Sub(DivSmall(np_pi, 4), AtanSmall(Div(Sub(One, t), Add(One, t))))
    ELSE AtanSmall(t)

\* the angle of (ax, ay) for ax, ay >= 0, not both 0: in [0, pi/2]
AtanQuadrant(ay, ax) ==
    IF Leq(ay, ax) THEN Atan01(Div(ay, ax)) ELSE Sub(HalfPi, Atan01(Div(ax, ay)))

\* arctan2 of finite arguments, in [-pi, pi]; arctan2(0, 0) = 0
Atan2(y, x) ==
    IF x = Zero /\ y = Zero
    THEN Zero
    ELSE IF x[4] < 0
         THEN IF y[4] < 0
              THEN Sub(AtanQuadrant(Abs(y), Abs(x)), np_pi)
              ELSE Sub(np_pi, AtanQuadrant(Abs(y), Abs(x)))
         ELSE IF y[4] < 0
              THEN Neg(AtanQuadrant(Abs(y), Abs(x)))
              ELSE AtanQuadrant(Abs(y), Abs(x))

(***************************************************************************)
(* Float and numpy operations, with NaN and the infinities.                *)
(***************************************************************************)
\* float('inf') and -float('inf'), by their sign s
Inf(s) == <<s>>

IsInf(a) == Len(a) = 1

IsFinite(a) == Len(a) = 4

\* the sign of a number or an infinity
fsign(a) == IF IsInf(a) THEN a[1] ELSE Sgn(a)

fneg(a) == IF IsNaN(a) THEN NaN ELSE IF IsInf(a) THEN Inf(-a[1]) ELSE Neg(a)

\* inf + (-inf) is NaN
fadd(a, b) ==
    IF IsNaN(a) \/ IsNaN(b) THEN NaN
    ELSE IF IsInf(a) THEN (IF IsInf(b) /\ b # a THEN NaN ELSE a)
    ELSE IF IsInf(b) THEN b
    ELSE Add(a, b)

fsub(a, b) == fadd(a, fneg(b))

\* inf * 0.0 is NaN
fmul(a, b) ==
    IF IsNaN(a) \/ IsNaN(b) THEN NaN
    ELSE IF IsInf(a) \/ IsInf(b)
         THEN (IF fsign(a) * fsign(b) = 0 THEN NaN ELSE Inf(fsign(a) * fsign(b)))
    ELSE Mul(a, b)

\* numpy division warns and returns: 0.0 / 0.0 is NaN, x / 0.0 is an
\* infinity of the sign of x (the zero of a norm is +0.0)
fdiv(a, b) ==
    IF IsNaN(a) \/ IsNaN(b) THEN NaN
    ELSE IF IsInf(b) THEN (IF IsInf(a) THEN NaN ELSE Zero)
    ELSE IF IsInf(a) THEN Inf(IF Sgn(b) < 0 THEN -a[1] ELSE a[1])
    ELSE IF b = Zero THEN (IF a = Zero THEN NaN ELSE Inf(Sgn(a)))
    ELSE Div(a, b)

\* a > b: False when either is NaN
fgt(a, b) ==
    /\ ~IsNaN(a) /\ ~IsNaN(b)
    /\ IF IsInf(a) THEN a[1] = 1 /\ b # a
       ELSE IF IsInf(b) THEN b[1] = -1
       ELSE Less(b, a)

np_sqrt(a) == IF IsFinite(a) THEN Sqrt(a) ELSE a

np_cos(a) == IF IsFinite(a) THEN Cos(a) ELSE NaN

np_sin(a) == IF IsFinite(a) THEN Sin(a) ELSE NaN

np_abs(a) == IF IsNaN(a) THEN NaN ELSE IF IsInf(a) THEN Inf(1) ELSE Abs(a)

np_sign(a) == IF IsNaN(a) THEN NaN ELSE FromInt(fsign(a))

\* np.clip(a, lo, hi) for finite lo <= hi: NaN stays NaN
np_clip(a, lo, hi) ==
    IF IsNaN(a) THEN NaN
    ELSE IF IsInf(a) THEN (IF a[1] = 1 THEN hi ELSE lo)
    ELSE IF Less(a, lo) THEN lo ELSE IF Less(hi, a) THEN hi ELSE a

\* outside [-1, 1] numpy warns and returns NaN
np_arcsin(a) ==
    IF ~IsFinite(a) \/ Less(One, Abs(a))
    THEN NaN
    ELSE Atan2(a, Sqrt(Sub(One, Mul(a, a))))

\* arctan2 of an infinity: a multiple of pi/4 of the sign of a
np_arctan2(a, b) ==
    IF IsNaN(a) \/ IsNaN(b) THEN NaN
    ELSE IF IsInf(a)
         THEN MulSmall(DivSmall(np_pi, 4),
                       a[1] * (IF IsFinite(b) THEN 2 ELSE IF b[1] = 1 THEN 1 ELSE 3))
    ELSE IF IsInf(b)
         THEN (IF b[1] = 1 THEN Zero ELSE IF Sgn(a) < 0 THEN Neg(np_pi) ELSE np_pi)
    ELSE Atan2(a, b)

np_degrees(a) == fmul(a, Div(FromInt(180), np_pi))

\* a variant with the sum of the absolute values for the norm, which C8
\* tells from np.linalg.norm
np_linalg_norm_l1(q) ==
    fadd(fadd(np_abs(q[1]), np_abs(q[2])), fadd(np_abs(q[3]), np_abs(q[4])))

\* the Euclidean norm of a 4-vector: sqrt(dot(q, q)), the squares rounded
\* as the products they are, so that the square of a small enough number is 0.0
np_linalg_norm(q) ==
    np_sqrt(fadd(fadd(fmul(q[1], q[1]), fmul(q[2], q[2])),
                 fadd(fmul(q[3], q[3]), fmul(q[4], q[4]))))

\* q / s, componentwise
vdiv(q, s) == <<fdiv(q[1], s), fdiv(q[2], s), fdiv(q[3], s), fdiv(q[4], s)>>

\* k * q for an integer k, componentwise
vscale(k, q) == <<MulSmall(q[1], k), MulSmall(q[2], k), MulSmall(q[3], k), MulSmall(q[4], k)>>

\* format(a, ".1f"): the number of tenths printed, <<>> where "nan" or
\* "inf" is printed
Format1(a) == IF IsFinite(a) THEN <<Add(MulSmall(a, 10), Half)[4]>> ELSE <<>>

(***************************************************************************)
(* The program.                                                            *)
(***************************************************************************)
EulerAngles(roll, pitch, yaw) == [roll |-> roll, pitch |-> pitch, yaw |-> yaw]

SINGULARITY_TOLERANCE == Micro(1)

\* a variant with the sign of the second term of z flipped, which C7 tells
\* from the code's products
zyx_components_flipped(cr, sr, cp, sp, cy, sy) ==
    << fadd(fmul(fmul(cr, cp), cy), fmul(fmul(sr, sp), sy)),
       fsub(fmul(fmul(sr, cp), cy), fmul(fmul(cr, sp), sy)),
       fadd(fmul(fmul(cr, sp), cy), fmul(fmul(sr, cp), sy)),
       fadd(fmul(fmul(cr, cp), sy), fmul(fmul(sr, sp), cy)) >>

\* the quaternion [w, x, y, z] of the half-angle cosines and sines
zyx_components(cr, sr, cp, sp, cy, sy) ==
    << fadd(fmul(fmul(cr, cp), cy), fmul(fmul(sr, sp), sy)),
       fsub(fmul(fmul(sr, cp), cy), fmul(fmul(cr, sp), sy)),
       fadd(fmul(fmul(cr, sp), cy), fmul(fmul(sr, cp), sy)),
       fsub(fmul(fmul(cr, cp), sy), fmul(fmul(sr, sp), cy)) >>

\* the 4-vector euler_to_quaternion builds, before it is normalized
euler_to_quaternion_q(euler) ==
    zyx_components(np_cos(fmul(euler.roll, Half)), np_sin(fmul(euler.roll, Half)),
                   np_cos(fmul(euler.pitch, Half)), np_sin(fmul(euler.pitch, Half)),
                   np_cos(fmul(euler.yaw, Half)), np_sin(fmul(euler.yaw, Half)))

\* what euler_to_quaternion(euler) returns, q / n, in the call's frame
e2q_frame(euler, q, n) ==
    [fn |-> "euler_to_quaternion", arg |-> euler, outcome |-> "return",
     norm |-> n, ret |-> vdiv(q, n)]

e2q_normalize(euler, q) == e2q_frame(euler, q, np_linalg_norm(q))

\* euler_to_quaternion: the call's frame, with what it returns
euler_to_quaternion(euler) == e2q_normalize(euler, euler_to_quaternion_q(euler))

t0_unclipped(w, x, y, z) == fmul(Two, fsub(fmul(w, y), fmul(z, x)))

\* a variant with a tolerance of 1e-5, which C4 tells from the code's test
gimbal_lock_wide(t0) == fgt(np_abs(t0), Sub(One, Micro(10)))

gimbal_lock(t0) == fgt(np_abs(t0), Sub(One, SINGULARITY_TOLERANCE))

\* a variant without np.sign, which C6 tells from the code's pitch
singular_pitch_unsigned(t0) == HalfPi

singular_pitch(t0) == fmul(HalfPi, np_sign(t0))

singular_yaw(w, x) == fmul(Two, np_arctan2(x, w))

warning(pitch) ==
    [tag |-> "[WARN]", text |-> "Gimbal Lock detected! Pitch is",
     tenths_of_degree |-> Format1(np_degrees(pitch))]

\* what the gimbal-lock branch returns and prints
singular_result(pitch, yaw) ==
    [branch |-> "singular", ret |-> EulerAngles(Zero, pitch, yaw),
     arcsin_args |-> <<>>, printed |-> <<warning(pitch)>>]

\* the branch of quaternion_to_euler taken at gimbal lock
singular_case(w, x, y, z, t0) == singular_result(singular_pitch(t0), singular_yaw(w, x))

regular_roll(w, x, y, z) ==
    np_arctan2(fmul(Two, fadd(fmul(w, x), fmul(y, z))),
               fsub(One, fmul(Two, fadd(fmul(x, x), fmul(y, y)))))

regular_yaw(w, x, y, z) ==
    np_arctan2(fmul(Two, fadd(fmul(w, z), fmul(x, y))),
               fsub(One, fmul(Two, fadd(fmul(y, y), fmul(z, z)))))

\* a variant that prints the notice in the standard branch too, which C9
\* tells from the code's
regular_case_warns(w, x, y, z, t0) ==
    [branch |-> "regular",
     ret |-> EulerAngles(regular_roll(w, x, y, z), np_arcsin(t0), regular_yaw(w, x, y, z)),
     arcsin_args |-> <<t0>>, printed |-> <<warning(np_arcsin(t0))>>]

\* the standard branch of quaternion_to_euler
regular_case(w, x, y, z, t0) ==
    [branch |-> "regular",
     ret |-> EulerAngles(regular_roll(w, x, y, z), np_arcsin(t0), regular_yaw(w, x, y, z)),
     arcsin_args |-> <<t0>>, printed |-> <<>>]

\* the frame of a call of quaternion_to_euler that took the branch case
q2e_frame(q, t0u, t0, case) ==
    [fn |-> "quaternion_to_euler", arg |-> q, outcome |-> "return",
     t0_unclipped |-> t0u, t0 |-> t0, branch |-> case.branch,
     arcsin_args |-> case.arcsin_args, printed |-> case.printed, ret |-> case.ret]

\* the singularity check on the clipped t0
q2e_branch(q, w, x, y, z, t0u, t0) ==
    q2e_frame(q, t0u, t0, IF gimbal_lock(t0)
                          THEN singular_case(w, x, y, z, t0)
                          ELSE regular_case(w, x, y, z, t0))

q2e_clip(q, w, x, y, z, t0u) == q2e_branch(q, w, x, y, z, t0u, np_clip(t0u, Neg(One), One))

\* w, x, y, z = q, for the normalized q
q2e_unpack(q, qn) == q2e_clip(q, qn[1], qn[2], qn[3], qn[4], t0_unclipped(qn[1], qn[2], qn[3], qn[4]))

\* quaternion_to_euler: the call's frame, with what it returns and prints
quaternion_to_euler(q) == q2e_unpack(q, vdiv(q, np_linalg_norm(q)))

(***************************************************************************)
(* The callers: one converts Euler angles to a quaternion and back, as the *)
(* demonstration and the test do; one starts from a quaternion, converts   *)
(* it, converts the result back, and converts a multiple of the quaternion.*)
(***************************************************************************)
Angles == {Zero, Micro(500000), Micro(-2500000), Micro(4000000), np_pi}

Pitches ==
    {Zero, Micro(500000), Micro(-1000000), HalfPi, Neg(HalfPi),
     Sub(HalfPi, Micro(100)), Sub(Micro(100), HalfPi),
     Sub(HalfPi, Micro(1500)), Sub(Micro(1500), HalfPi)}

EulerInputs == {EulerAngles(r, p, y) : r \in Angles, p \in Pitches, y \in Angles}

Components == {FromInt(c) : c \in -MaxComp .. MaxComp}

\* the smallest positive number, and the components that are multiples of it
Tiny == <<1, 0, 0, 0>>

TinyComponents == {MulSmall(Tiny, c) : c \in -MaxComp .. MaxComp}

QuaternionsOver(S) == {<<w, x, y, z>> : w \in S, x \in S, y \in S, z \in S}

QuaternionInputs == QuaternionsOver(Components) \cup QuaternionsOver(TinyComponents)

Scales == (-MaxScale .. MaxScale) \ {0}

VARIABLES start, input, calls, stdout

vars == <<start, input, calls, stdout>>

Init ==
    /\ \/ start = "euler" /\ input \in EulerInputs
       \/ start = "quaternion" /\ input \in QuaternionInputs
    /\ calls = <<>>
    /\ stdout = <<>>

\* euler_to_quaternion(e), e the input or the Euler angles just returned
CallEulerToQuaternion ==
    /\ \/ start = "euler" /\ Len(calls) = 0
       \/ start = "quaternion" /\ Len(calls) = 1
    /\ calls' = Append(calls, euler_to_quaternion(IF Len(calls) = 0 THEN input ELSE calls[1].ret))
    /\ UNCHANGED <<start, input, stdout>>

\* the caller's state after a call of quaternion_to_euler with this frame
Returned(frame) ==
    /\ calls' = Append(calls, frame)
    /\ stdout' = stdout \o frame.printed
    /\ UNCHANGED <<start, input>>

Convert(q) == Returned(quaternion_to_euler(q))

\* quaternion_to_euler(q), q the input or the quaternion just returned
CallQuaternionToEuler ==
    /\ \/ start = "euler" /\ Len(calls) = 1
       \/ start = "quaternion" /\ Len(calls) = 0
    /\ Convert(IF Len(calls) = 0 THEN input ELSE calls[1].ret)

\* quaternion_to_euler(k * q) for the input q
CallQuaternionToEulerScaled ==
    /\ start = "quaternion" /\ Len(calls) = 2
    /\ \E k \in Scales : Convert(vscale(k, input))

Next == CallEulerToQuaternion \/ CallQuaternionToEuler \/ CallQuaternionToEulerScaled

Spec == Init /\ [][Next]_vars

(***************************************************************************)
(* The claims.                                                             *)
(***************************************************************************)
\* |a - b| <= tol, for numbers that are neither NaN nor infinite
Within(a, b, tol) == IsFinite(a) /\ IsFinite(b) /\ Leq(Abs(Sub(a, b)), tol)

\* |a - b| <= tol up to a multiple of 2 pi
WithinMod2Pi(a, b, tol) ==
    \E m \in -1 .. 1 : Within(a, Add(b, MulSmall(np_pi, 2 * m)), tol)

Tol1e4 == Micro(100)

Tol1e5 == Micro(10)

Tol1e9 == <<1000, 0, 0, 0>>

Finite(v) == \A i \in DOMAIN v : IsFinite(v[i])

FiniteAngles(e) == IsFinite(e.roll) /\ IsFinite(e.pitch) /\ IsFinite(e.yaw)

ZeroQuaternion == <<Zero, Zero, Zero, Zero>>

\* the calls of quaternion_to_euler, and of euler_to_quaternion, made so far
Q2ECalls == {i \in 1 .. Len(calls) : calls[i].fn = "quaternion_to_euler"}

E2QCalls == {i \in 1 .. Len(calls) : calls[i].fn = "euler_to_quaternion"}

\* the Euclidean norm of q, by the sum of the squares
Euclid(q) ==
    Sqrt(Add(Add(Mul(q[1], q[1]), Mul(q[2], q[2])), Add(Mul(q[3], q[3]), Mul(q[4], q[4]))))

\* p is q or -q, component by component, within tol
SameRotation(p, q, tol) ==
    /\ Finite(p)
    /\ \/ \A i \in 1 .. 4 : Within(p[i], q[i], tol)
       \/ \A i \in 1 .. 4 : Within(p[i], Neg(q[i]), tol)

\* C1: quaternion_to_euler of the zero quaternion ends in an error raised to
\* the caller; it returns no EulerAngles (none with a NaN in it either).
C1_ZeroQuaternionRaises ==
    \A i \in Q2ECalls : calls[i].arg = ZeroQuaternion => calls[i].outcome = "raise"

\* C2: for every quaternion q of nonzero norm, in either branch,
\* euler_to_quaternion(quaternion_to_euler(q)) is q/|q| or -q/|q|.
C2_EquivalentRotation ==
    (start = "quaternion" /\ Len(calls) >= 2 /\ input # ZeroQuaternion)
        => SameRotation(calls[2].ret, vdiv(input, Euclid(input)), Tol1e5)

\* C3: for every quaternion of nonzero norm, quaternion_to_euler returns
\* pitch in [-pi/2, pi/2], roll in (-pi, pi] and yaw in (-pi, pi].
\* (np_pi is pi rounded down, so a number of the model is in (-pi, pi]
\* just when it is in [-np_pi, np_pi].)
C3_AnglesInRange ==
    \A i \in Q2ECalls :
        calls[i].arg # ZeroQuaternion =>
            /\ FiniteAngles(calls[i].ret)
            /\ Leq(Neg(HalfPi), calls[i].ret.pitch) /\ Leq(calls[i].ret.pitch, HalfPi)
            /\ Leq(Neg(np_pi), calls[i].ret.roll) /\ Leq(calls[i].ret.roll, np_pi)
            /\ Leq(Neg(np_pi), calls[i].ret.yaw) /\ Leq(calls[i].ret.yaw, np_pi)

\* the Euler angles the caller converted to a quaternion and back
RoundTrip == start = "euler" /\ Len(calls) = 2

\* C4, as claimed: for every e with pitch strictly inside
\* (-pi/2 + delta, pi/2 - delta) for a margin delta > 1e-6,
\* quaternion_to_euler(euler_to_quaternion(e)) is e within 1e-5 in roll,
\* pitch and yaw.
C4_RoundTripMargin1e6 ==
    (RoundTrip /\ Less(Abs(input.pitch), Sub(HalfPi, Micro(1)))) =>
        /\ Within(calls[2].ret.roll, input.roll, Tol1e5)
        /\ Within(calls[2].ret.pitch, input.pitch, Tol1e5)
        /\ Within(calls[2].ret.yaw, input.yaw, Tol1e5)

\* C4, amended: for every e with pitch in [-pi/2 + delta, pi/2 - delta] for
\* a margin delta >= 1.5e-3, the round trip returns e's pitch within 1e-5
\* and e's roll and yaw within 1e-5 up to a multiple of 2 pi.
C4_RoundTripRegular ==
    (RoundTrip /\ Leq(Abs(input.pitch), Sub(HalfPi, Micro(1500)))) =>
        /\ calls[2].branch = "regular"
        /\ WithinMod2Pi(calls[2].ret.roll, input.roll, Tol1e5)
        /\ Within(calls[2].ret.pitch, input.pitch, Tol1e5)
        /\ WithinMod2Pi(calls[2].ret.yaw, input.yaw, Tol1e5)

\* a round trip at the smallest margin that the amended C4 covers
C4_Witness ==
    /\ RoundTrip
    /\ input.pitch = Sub(HalfPi, Micro(1500))
    /\ input.roll = Micro(4000000)
    /\ input.yaw = Micro(-2500000)
    /\ calls[2].branch = "regular"

\* C5: for every quaternion q of nonzero norm and every k # 0,
\* quaternion_to_euler(k * q) returns the roll, pitch and yaw that
\* quaternion_to_euler(q) returns, in either branch.
C5_ScaleInvariant ==
    (start = "quaternion" /\ Len(calls) = 3 /\ input # ZeroQuaternion) =>
        /\ Within(calls[3].ret.roll, calls[1].ret.roll, Tol1e5)
        /\ Within(calls[3].ret.pitch, calls[1].ret.pitch, Tol1e5)
        /\ Within(calls[3].ret.yaw, calls[1].ret.yaw, Tol1e5)

\* C6: quaternion_to_euler takes the singular branch just when the clamped
\* t0 has |t0| > 1 - 1e-6, and then returns roll 0 and pitch (pi/2) sign(t0);
\* an input of pitch pi/2 converted to a quaternion and back has pitch pi/2
\* (within 1e-5) and roll 0, and one of pitch -pi/2 has pitch -pi/2 and roll 0.
C6_GimbalLockOutput ==
    /\ \A i \in Q2ECalls :
          /\ calls[i].branch = "singular" <=>
                (~IsNaN(calls[i].t0) /\ Less(Sub(One, Micro(1)), Abs(calls[i].t0)))
          /\ calls[i].branch = "singular" =>
                /\ calls[i].ret.roll = Zero
                /\ Sgn(calls[i].t0) # 0
                /\ calls[i].ret.pitch = MulSmall(HalfPi, Sgn(calls[i].t0))
    /\ (RoundTrip /\ input.pitch = HalfPi) =>
          /\ calls[2].branch = "singular" /\ Sgn(calls[2].t0) = 1
          /\ Within(calls[2].ret.pitch, HalfPi, Tol1e5)
          /\ calls[2].ret.roll = Zero
    /\ (RoundTrip /\ input.pitch = Neg(HalfPi)) =>
          /\ calls[2].branch = "singular" /\ Sgn(calls[2].t0) = -1
          /\ Within(calls[2].ret.pitch, Neg(HalfPi), Tol1e5)
          /\ calls[2].ret.roll = Zero

\* a round trip from the south pole with a roll that is not returned
C6_Witness ==
    /\ RoundTrip
    /\ input.pitch = Neg(HalfPi)
    /\ input.roll = Micro(500000)
    /\ calls[2].branch = "singular"
    /\ calls[2].ret.roll = Zero

\* the scenario's input: roll = pitch = yaw = 0.5
Scenario == start = "euler" /\ input = EulerAngles(Micro(500000), Micro(500000), Micro(500000))

\* q is [w, x, y, z] to four decimals, given in millionths
Rounds4(q, w, x, y, z) ==
    /\ Within(q[1], Micro(w), Micro(50))
    /\ Within(q[2], Micro(x), Micro(50))
    /\ Within(q[3], Micro(y), Micro(50))
    /\ Within(q[4], Micro(z), Micro(50))

ScenarioRoundTrip ==
    (Scenario /\ Len(calls) = 2) =>
        /\ Within(calls[2].ret.roll, Micro(500000), Tol1e4)
        /\ Within(calls[2].ret.pitch, Micro(500000), Tol1e4)
        /\ Within(calls[2].ret.yaw, Micro(500000), Tol1e4)

\* C7, as claimed: euler_to_quaternion of roll = pitch = yaw = 0.5 is about
\* [0.9531, 0.2005, 0.2759, 0.1383], and quaternion_to_euler of it returns
\* roll, pitch and yaw within 1e-4 of 0.5.
C7_ScenarioAsClaimed ==
    /\ (Scenario /\ Len(calls) >= 1) => Rounds4(calls[1].ret, 953100, 200500, 275900, 138300)
    /\ ScenarioRoundTrip

\* C7, amended: the quaternion is [0.9247, 0.1730, 0.2916, 0.1730] to four
\* decimals; the round trip is within 1e-4 of 0.5 as claimed.
C7_Scenario ==
    /\ (Scenario /\ Len(calls) >= 1) => Rounds4(calls[1].ret, 924700, 173000, 291600, 173000)
    /\ ScenarioRoundTrip

C7_Witness == Scenario /\ Len(calls) = 2 /\ calls[2].branch = "regular"

\* C8: for every finite (roll, pitch, yaw), euler_to_quaternion raises no
\* error, the 4-vector it normalizes has a nonzero norm, and the quaternion
\* it returns has Euclidean norm 1 within 1e-9.
C8_UnitNorm ==
    \A i \in E2QCalls :
        FiniteAngles(calls[i].arg) =>
            /\ calls[i].outcome = "return"
            /\ IsFinite(calls[i].norm) /\ calls[i].norm # Zero
            /\ Finite(calls[i].ret)
            /\ Within(Euclid(calls[i].ret), One, Tol1e9)

\* a call whose 4-vector was not of norm 1 before it was normalized
C8_Witness ==
    /\ start = "euler" /\ Len(calls) >= 1
    /\ input.roll = Micro(4000000) /\ input.pitch = Micro(-1000000)
    /\ calls[1].norm # One
    /\ Finite(calls[1].ret)

RECURSIVE Printed(_)
\* what the first n calls printed, in order
Printed(n) ==
    IF n = 0
    THEN <<>>
    ELSE Printed(n - 1) \o (IF calls[n].fn = "quaternion_to_euler" THEN calls[n].printed ELSE <<>>)

\* C9: a call of quaternion_to_euler prints the gimbal-lock notice once if
\* it takes the singular branch and never if it takes the regular branch;
\* the call returns all the same, the Euler angles of that branch.
C9_NoticeOnlyAtGimbalLock ==
    /\ stdout = Printed(Len(calls))
    /\ \A i \in Q2ECalls :
          /\ calls[i].outcome = "return"
          /\ calls[i].branch = "regular" => calls[i].printed = <<>>
          /\ calls[i].branch = "singular" =>
                /\ Len(calls[i].printed) = 1
                /\ calls[i].printed[1].tag = "[WARN]"
                /\ calls[i].printed[1].tenths_of_degree = <<900 * Sgn(calls[i].t0)>>
                /\ FiniteAngles(calls[i].ret)
                /\ calls[i].ret.roll = Zero

\* a caller whose two calls at gimbal lock printed one notice each
C9_Witness ==
    /\ start = "quaternion" /\ Len(calls) = 3
    /\ calls[1].branch = "singular" /\ calls[3].branch = "singular"
    /\ Len(stdout) = 2

\* C10: t0 is clamped to [-1, 1] before the branch is chosen and before
\* arcsin is called: for every input of nonzero norm, also one whose
\* unclamped t0 overshoots 1 or -1, arcsin is given an argument in [-1, 1],
\* the call returns, and no angle returned is NaN.
C10_ClampedDomain ==
    \A i \in Q2ECalls :
        (Finite(calls[i].arg) /\ calls[i].arg # ZeroQuaternion) =>
            /\ ~IsNaN(calls[i].t0)
            /\ Leq(Neg(One), calls[i].t0) /\ Leq(calls[i].t0, One)
            /\ fgt(calls[i].t0_unclipped, One) => calls[i].t0 = One
            /\ fgt(Neg(One), calls[i].t0_unclipped) => calls[i].t0 = Neg(One)
            /\ \A j \in DOMAIN calls[i].arcsin_args :
                  IsFinite(calls[i].arcsin_args[j]) /\ Leq(Abs(calls[i].arcsin_args[j]), One)
            /\ calls[i].outcome = "return"
            /\ FiniteAngles(calls[i].ret)
====
